---- MODULE Spec2Model ----
(***************************************************************************)
(* The seat-assignment engine of src/app.js (scheduler.js): schedule,      *)
(* validateConstraints, seededShuffle, greedyPairScheduler and             *)
(* generateRoomSummaries, as a state machine that follows one call of      *)
(* schedule(students, rooms, {seed}) from entry to its return or throw.    *)
(***************************************************************************)
EXTENDS Integers, Sequences, FiniteSets, TLC

(***************************************************************************)
(* Bounds of the explored inputs.                                          *)
(***************************************************************************)
MaxStudents == 3
MaxRooms == 2
MaxSummarised == 4
MaxSeated == 5
MaxRows == 3
MaxClientRooms == 4

(* Values the inputs are drawn from. *)
RollNames == <<"10-1", "10-2", "10-3", "10-5", "7">>
SubjectNames == <<"BBA", "BCom", "BCA">>
RoomIds == <<"R1", "R2", "R3">>
RoomNames == <<"Room 1", "Room 2", "Room 3">>
OtherRoomNames == {"R2"}
NoPreference == ""
Preferences == {NoPreference, "R2"}
BenchCounts == {1, 2}
SeatCounts == {1, 2, 3}
SeedValues == {1, -6}
NamedRoomShape == [num_benches |-> 1, seats_per_bench |-> 2]

VARIABLES
  students,           \* argument `students` of schedule (a sequence; <<>> when null)
  rooms,              \* argument `rooms` of schedule (a sequence; <<>> when null)
  nullArgs,           \* which of the two arguments were passed as null/undefined
  seed,               \* options.seed: <<>> for null (the default), <<s>> for the number s
  pc,                 \* position inside schedule / greedyPairScheduler
  validationErrors,   \* schedule: const validationErrors
  processedStudents,  \* schedule: let processedStudents
  diagnostics,        \* greedyPairScheduler: const diagnostics
  roomAssignments,    \* greedyPairScheduler: roomAssignments[k].students
  unassignedStudents, \* greedyPairScheduler: const unassignedStudents
  cursor,             \* loop positions: student index i, roomIdx, room k, benchIdx, seatIdx
  roomSubjectGroups,  \* seat loop: roomSubjectGroups, keys in insertion order
  benchSubjects,      \* seat loop: const benchSubjects
  remainingStudents,  \* seat loop: let remainingStudents
  assignments,        \* greedyPairScheduler: const assignments
  outcome,            \* "pending", "returned" or "threw"
  result              \* the object schedule returned

vars == <<students, rooms, nullArgs, seed, pc, validationErrors, processedStudents,
          diagnostics, roomAssignments, unassignedStudents, cursor,
          roomSubjectGroups, benchSubjects, remainingStudents, assignments,
          outcome, result>>

(***************************************************************************)
(* Helpers.                                                                *)
(***************************************************************************)
Range(s) == {s[i] : i \in 1..Len(s)}

MaxOf(S) == CHOOSE x \in S : \A y \in S : y <= x

SumSeq(f) ==
  LET RECURSIVE Go(_)
      Go(i) == IF i = 0 THEN 0 ELSE f[i] + Go(i - 1)
  IN Go(Len(f))

\* Template strings: `${n}` of a small integer n.
Str(n) ==
  IF n >= 0 /\ n <= 20
  THEN <<"0", "1", "2", "3", "4", "5", "6", "7", "8", "9", "10", "11", "12",
         "13", "14", "15", "16", "17", "18", "19", "20">>[n + 1]
  ELSE IF n < 0 /\ n >= -12
  THEN <<"-1", "-2", "-3", "-4", "-5", "-6", "-7", "-8", "-9", "-10", "-11",
         "-12">>[0 - n]
  ELSE "n"

\* Math.floor(n / 2) in the place of Math.ceil(n / 2).
FloorHalf(n) == n \div 2

\* Math.ceil(n / 2) for an integer n >= 0.
CeilHalf(n) == (n + 1) \div 2

(***************************************************************************)
(* validateConstraints(students, rooms).  `!students` is true of null and  *)
(* undefined; students.forEach then throws a TypeError.                    *)
(***************************************************************************)
DuplicateRollErrors(st) ==
  LET dup == SelectSeq([i \in 1..Len(st) |-> i],
                       LAMBDA i : \E j \in 1..(i - 1) : st[j].roll = st[i].roll)
  IN [k \in 1..Len(dup) |-> <<"Duplicate roll number: ", st[dup[k]].roll>>]

\* validateConstraints returning at the first problem it finds.
validateConstraintsFirstProblem(st, rm, nulls) ==
  LET e1 == IF "students" \in nulls \/ Len(st) = 0
            THEN <<(<<"No students provided">>)>> ELSE <<>>
      e2 == IF "rooms" \in nulls \/ Len(rm) = 0
            THEN <<(<<"No rooms provided">>)>> ELSE <<>>
      all == IF "students" \in nulls THEN e1 \o e2
             ELSE e1 \o e2 \o DuplicateRollErrors(st)
  IN [threw  |-> "students" \in nulls,
      errors |-> IF all = <<>> THEN <<>> ELSE <<all[1]>>]

validateConstraints(st, rm, nulls) ==
  LET e1 == IF "students" \in nulls \/ Len(st) = 0
            THEN <<(<<"No students provided">>)>> ELSE <<>>
      e2 == IF "rooms" \in nulls \/ Len(rm) = 0
            THEN <<(<<"No rooms provided">>)>> ELSE <<>>
  IN [threw  |-> "students" \in nulls,
      errors |-> IF "students" \in nulls THEN e1 \o e2
                 ELSE e1 \o e2 \o DuplicateRollErrors(st)]

(***************************************************************************)
(* Inputs.  Rolls and subjects are enumerated up to renaming: the i-th     *)
(* student either repeats an earlier roll (subject) or takes the next      *)
(* unused one of RollNames (SubjectNames).                                 *)
(***************************************************************************)
FirstOccurrenceForms(n, k) ==
  {f \in [1..n -> 1..k] :
     \A i \in 1..n : f[i] <= 1 + MaxOf({0} \cup {f[j] : j \in 1..(i - 1)})}

Student(r, s, p) == [roll |-> r, subject |-> s, preferred_room |-> p]

\* Students with pairwise distinct rolls, any subjects and preferences.
DistinctRollStudents ==
  UNION {
    {[i \in 1..n |-> Student(RollNames[i], SubjectNames[s[i]], p[i])] :
        s \in FirstOccurrenceForms(n, Len(SubjectNames)),
        p \in [1..n -> Preferences]}
    : n \in 0..MaxStudents}

\* Students with some roll repeated, in every pattern of repetition.
DuplicateRollStudents ==
  UNION {
    {[i \in 1..n |-> Student(RollNames[r[i]], SubjectNames[1], NoPreference)] :
        r \in {f \in FirstOccurrenceForms(n, Len(RollNames)) :
                 \E i, j \in 1..n : i # j /\ f[i] = f[j]}}
    : n \in 0..MaxStudents}

StudentInputs == DistinctRollStudents \cup DuplicateRollStudents

Room(id, nm, b, s) ==
  [room_id |-> id, room_name |-> nm, num_benches |-> b, seats_per_bench |-> s]

\* Rooms R1, R2, ... named "Room 1", "Room 2", ... of every shape.
ShapedRooms ==
  UNION {
    {[k \in 1..m |-> Room(RoomIds[k], RoomNames[k], b[k], s[k])] :
        b \in [1..m -> BenchCounts], s \in [1..m -> SeatCounts]}
    : m \in 0..MaxRooms}

\* Rooms of one shape whose ids repeat, or whose names repeat or equal an id.
NamedRooms ==
  UNION {
    {[k \in 1..m |-> Room(RoomIds[id[k]], RoomNames[k], NamedRoomShape.num_benches,
                      NamedRoomShape.seats_per_bench)] :
        id \in [1..m -> 1..m]}
    \cup
    {[k \in 1..m |-> Room(RoomIds[k], nm[k], NamedRoomShape.num_benches,
                      NamedRoomShape.seats_per_bench)] :
        nm \in [1..m -> {RoomNames[j] : j \in 1..m} \cup OtherRoomNames]}
    : m \in 1..MaxRooms}

RoomInputs == ShapedRooms \cup NamedRooms

NoResult ==
  [success |-> FALSE, assignments |-> <<>>,
   diagnostics |-> [feasible |-> TRUE, conflicts |-> <<>>, suggestions |-> <<>>],
   room_summaries |-> <<>>]

\* The locals of schedule and greedyPairScheduler at the entry of schedule.
InitLocals ==
  /\ pc = "schedule"
  /\ validationErrors = <<>>
  /\ processedStudents = <<>>
  /\ diagnostics = [feasible |-> TRUE, conflicts |-> <<>>, suggestions |-> <<>>]
  /\ roomAssignments = <<>>
  /\ unassignedStudents = <<>>
  /\ cursor = [i |-> 0, roomIdx |-> 0, k |-> 0, benchIdx |-> 0, seatIdx |-> 0]
  /\ roomSubjectGroups = <<>>
  /\ benchSubjects = {}
  /\ remainingStudents = 0
  /\ assignments = <<>>
  /\ outcome = "pending"
  /\ result = NoResult

Init ==
  /\ nullArgs \in SUBSET {"students", "rooms"}
  /\ students \in IF "students" \in nullArgs THEN {<<>>} ELSE StudentInputs
  /\ rooms \in IF "rooms" \in nullArgs THEN {<<>>} ELSE RoomInputs
  /\ seed \in {<<>>} \cup {<<s>> : s \in SeedValues}
  /\ InitLocals

(***************************************************************************)
(* Rooms outside the contract: some num_benches or seats_per_bench is zero *)
(* or negative.  validateConstraints reads neither field.                  *)
(***************************************************************************)
MalformedBenchCounts == {-1, 0, 1}
MalformedSeatCounts == {-2, 0, 2}

IsPositiveRoom(room) == room.num_benches > 0 /\ room.seats_per_bench > 0

MalformedRooms ==
  UNION {
    {r \in {[k \in 1..m |-> Room(RoomIds[k], RoomNames[k], b[k], s[k])] :
              b \in [1..m -> MalformedBenchCounts],
              s \in [1..m -> MalformedSeatCounts]} :
       \E k \in 1..m : ~IsPositiveRoom(r[k])}
    : m \in 1..MaxRooms}

InitMalformedRooms ==
  /\ nullArgs = {}
  /\ students \in StudentInputs
  /\ rooms \in MalformedRooms
  /\ seed \in {<<>>} \cup {<<s>> : s \in SeedValues}
  /\ InitLocals

(***************************************************************************)
(* seededShuffle(array, seed).  `%` keeps the sign of the dividend, so a   *)
(* negative state gives a negative index i: arr[i] then reads a property   *)
(* that is no element (undefined unless an earlier pass wrote it) and      *)
(* arr[i] = t writes one.                                                  *)
(***************************************************************************)
Undefined == Student("undefined", "undefined", "undefined")

JsRemainder(a, b) == IF a >= 0 THEN a % b ELSE 0 - ((0 - a) % b)

\* (a * 9301) % 233280 for 0 <= a < 233280, in steps that stay below 2^31.
TimesMultiplier(a) == (((a * 93) % 233280) * 100 + a) % 233280

\* random = (random * 9301 + 49297) % 233280: the sum is negative exactly when
\* random <= -6, and `%` then yields minus the remainder of its magnitude.
nextRandom(random) ==
  IF random >= 0 THEN (TimesMultiplier(random) + 49297) % 233280
  ELSE IF random >= -5 THEN JsRemainder(random * 9301 + 49297, 233280)
  ELSE 0 - ((TimesMultiplier(0 - random) + 233280 - 49297) % 233280)

\* Math.floor(random / 233280 * m)
RandomIndex(random, m) == (random * m) \div 233280

seededShuffle(array, seedValue) ==
  LET RECURSIVE Pass(_, _, _, _)
      Pass(arr, props, m, random) ==
        IF m = 0 THEN arr
        ELSE
          LET r  == nextRandom(random)
              i  == RandomIndex(r, m)
              m1 == m - 1
              t  == arr[m1 + 1]
              ai == IF i >= 0 THEN arr[i + 1] ELSE props[i]
              a1 == [arr EXCEPT ![m1 + 1] = ai]
              a2 == IF i >= 0 THEN [a1 EXCEPT ![i + 1] = t] ELSE a1
              p2 == IF i >= 0 THEN props ELSE [props EXCEPT ![i] = t]
          IN Pass(a2, p2, m1, r)
  IN Pass(array, [i \in (0 - Len(array))..(0 - 1) |-> Undefined], Len(array), seedValue)

(***************************************************************************)
(* greedyPairScheduler: grouping and the two feasibility checks.           *)
(***************************************************************************)
\* { subject: [students...] } with its keys in insertion order.
GroupBySubject(sts) ==
  LET RECURSIVE Go(_, _)
      Go(i, groups) ==
        IF i > Len(sts) THEN groups
        ELSE
          LET s == sts[i]
              at == {g \in 1..Len(groups) : groups[g].subject = s.subject}
          IN IF at = {}
             THEN Go(i + 1, Append(groups, [subject |-> s.subject, members |-> <<s>>]))
             ELSE LET g == CHOOSE x \in at : TRUE
                  IN Go(i + 1, [groups EXCEPT ![g].members = Append(@, s)])
  IN Go(1, <<>>)

capacity(room) == room.num_benches * room.seats_per_bench

totalCapacity(rm) == SumSeq([k \in 1..Len(rm) |-> capacity(rm[k])])

\* subjects.length in the place of the largest group's length.
numberOfSubjects(sts) == Len(GroupBySubject(sts))

maxSubjectCount(sts) ==
  LET groups == GroupBySubject(sts)
  IN MaxOf({Len(groups[g].members) : g \in 1..Len(groups)})

Conflict(type, room, bench, message) ==
  [type |-> type, room |-> room, bench_number |-> bench, message |-> message]

NoRoom == "(none)"
NoBench == 0

Returned(success, asg, diag, summaries) ==
  [success |-> success, assignments |-> asg, diagnostics |-> diag,
   room_summaries |-> summaries]

Return(r) ==
  /\ result' = r
  /\ outcome' = "returned"
  /\ pc' = "done"

Throw ==
  /\ outcome' = "threw"
  /\ pc' = "done"
  /\ UNCHANGED result

(***************************************************************************)
(* schedule: validation (lines 1092-1105).                                 *)
(***************************************************************************)
\* The map of line 1100 keeping the last message first.
validationConflictsReversed(errors) ==
  [e \in 1..Len(errors) |->
     Conflict("validation", NoRoom, NoBench, errors[Len(errors) + 1 - e])]

\* Line 1100: validationErrors.map(e => ({ type: 'validation', message: e }))
validationConflicts(errors) ==
  [e \in 1..Len(errors) |-> Conflict("validation", NoRoom, NoBench, errors[e])]

Validate ==
  /\ pc = "schedule"
  /\ LET v == validateConstraints(students, rooms, nullArgs)
     IN IF v.threw
        THEN /\ Throw
             /\ UNCHANGED validationErrors
        ELSE /\ validationErrors' = v.errors
             /\ IF Len(v.errors) > 0
                THEN Return(Returned(FALSE, <<>>,
                       [feasible    |-> FALSE,
                        conflicts   |-> validationConflicts(v.errors),
                        suggestions |-> <<>>],
                       <<>>))
                ELSE /\ pc' = "shuffle"
                     /\ UNCHANGED <<outcome, result>>
  /\ UNCHANGED <<students, rooms, nullArgs, seed, processedStudents, diagnostics,
                 roomAssignments, unassignedStudents, cursor, roomSubjectGroups,
                 benchSubjects, remainingStudents, assignments>>

(***************************************************************************)
(* schedule: the copy and the optional shuffle (lines 1107-1111).          *)
(***************************************************************************)
\* The shuffle done on the caller's array itself, without the copies of
\* lines 1107 and 1126.
ShuffleInPlace ==
  /\ pc = "shuffle"
  /\ students' = IF seed # <<>> THEN seededShuffle(students, seed[1]) ELSE students
  /\ processedStudents' = students'
  /\ pc' = "capacity"
  /\ UNCHANGED <<rooms, nullArgs, seed, validationErrors, diagnostics,
                 roomAssignments, unassignedStudents, cursor, roomSubjectGroups,
                 benchSubjects, remainingStudents, assignments, outcome, result>>

Shuffle ==
  /\ pc = "shuffle"
  /\ processedStudents' = IF seed # <<>> THEN seededShuffle(students, seed[1])
                          ELSE students
  /\ pc' = "capacity"
  /\ UNCHANGED <<students, rooms, nullArgs, seed, validationErrors, diagnostics,
                 roomAssignments, unassignedStudents, cursor, roomSubjectGroups,
                 benchSubjects, remainingStudents, assignments, outcome, result>>

(***************************************************************************)
(* greedyPairScheduler, lines 824-840: grouping by subject (which reads    *)
(* s.subject of every element) and the capacity check.                     *)
(***************************************************************************)
CheckCapacity ==
  /\ pc = "capacity"
  /\ IF Undefined \in Range(processedStudents)
     THEN /\ Throw
          /\ UNCHANGED diagnostics
     ELSE IF Len(processedStudents) > totalCapacity(rooms)
     THEN LET d == [diagnostics EXCEPT
                      !.feasible = FALSE,
                      !.suggestions = Append(@,
                         <<"Not enough capacity. Need ", Str(Len(processedStudents)),
                           " seats but have ", Str(totalCapacity(rooms)), ".">>)]
          IN /\ diagnostics' = d
             /\ Return(Returned(FALSE, <<>>, d, <<>>))
     ELSE /\ pc' = "subjects"
          /\ UNCHANGED <<diagnostics, outcome, result>>
  /\ UNCHANGED <<students, rooms, nullArgs, seed, validationErrors, processedStudents,
                 roomAssignments, unassignedStudents, cursor, roomSubjectGroups,
                 benchSubjects, remainingStudents, assignments>>

(***************************************************************************)
(* greedyPairScheduler, lines 842-861: the subject-distribution check,     *)
(* then the empty roomAssignments.                                         *)
(***************************************************************************)
CheckSubjects ==
  /\ pc = "subjects"
  /\ LET requiredSeats == Len(processedStudents)
         maxCount == maxSubjectCount(processedStudents)
     IN IF maxCount > CeilHalf(requiredSeats)
        THEN LET d == [diagnostics EXCEPT
                         !.feasible = FALSE,
                         !.conflicts = Append(@,
                            Conflict("infeasible", NoRoom, NoBench,
                              <<"Subject with ", Str(maxCount),
                                " students cannot be seated with bench constraint. Maximum allowed: ",
                                Str(CeilHalf(requiredSeats))>>))]
             IN /\ diagnostics' = d
                /\ Return(Returned(FALSE, <<>>, d, <<>>))
                /\ UNCHANGED <<roomAssignments, cursor>>
        ELSE /\ roomAssignments' = [k \in 1..Len(rooms) |->
                                      [room |-> rooms[k], students |-> <<>>,
                                       capacity |-> capacity(rooms[k])]]
             /\ cursor' = [cursor EXCEPT !.i = 1]
             /\ pc' = "preferred"
             /\ UNCHANGED <<diagnostics, outcome, result>>
  /\ UNCHANGED <<students, rooms, nullArgs, seed, validationErrors, processedStudents,
                 unassignedStudents, roomSubjectGroups, benchSubjects,
                 remainingStudents, assignments>>

(***************************************************************************)
(* greedyPairScheduler, lines 863-878: one pass of students.forEach,       *)
(* placing the student in the first room whose name or id equals           *)
(* preferred_room when that room is below its capacity.  The pass over the *)
(* last student also runs `let roomIdx = 0` (line 881).                    *)
(***************************************************************************)
\* The find of line 867 comparing room_name only.
FindPreferredByName(ras, pref) ==
  LET hit == {k \in 1..Len(ras) : ras[k].room.room_name = pref}
  IN IF hit = {} THEN 0 ELSE CHOOSE k \in hit : \A j \in hit : k <= j

FindPreferred(ras, pref) ==
  LET hit == {k \in 1..Len(ras) :
                ras[k].room.room_name = pref \/ ras[k].room.room_id = pref}
  IN IF hit = {} THEN 0 ELSE CHOOSE k \in hit : \A j \in hit : k <= j

\* The callback without the else branch of line 872: a student whose
\* preferred room is missing or full is kept nowhere.
preferredPassDropping(ras, unassigned, student) ==
  LET k == IF student.preferred_room # NoPreference
           THEN FindPreferred(ras, student.preferred_room) ELSE 0
  IN IF student.preferred_room = NoPreference
     THEN [rooms |-> ras, unassigned |-> Append(unassigned, student)]
     ELSE IF k # 0 /\ Len(ras[k].students) < ras[k].capacity
     THEN [rooms |-> [ras EXCEPT ![k].students = Append(@, student)],
           unassigned |-> unassigned]
     ELSE [rooms |-> ras, unassigned |-> unassigned]

\* The callback without the capacity test of line 870.
preferredPassOverfilling(ras, unassigned, student) ==
  LET k == IF student.preferred_room # NoPreference
           THEN FindPreferred(ras, student.preferred_room) ELSE 0
  IN IF k # 0
     THEN [rooms |-> [ras EXCEPT ![k].students = Append(@, student)],
           unassigned |-> unassigned]
     ELSE [rooms |-> ras, unassigned |-> Append(unassigned, student)]

\* The body of the forEach callback for one student (lines 866-877).
preferredPass(ras, unassigned, student) ==
  LET k == IF student.preferred_room # NoPreference
           THEN FindPreferred(ras, student.preferred_room) ELSE 0
  IN IF k # 0 /\ Len(ras[k].students) < ras[k].capacity
     THEN [rooms |-> [ras EXCEPT ![k].students = Append(@, student)],
           unassigned |-> unassigned]
     ELSE [rooms |-> ras, unassigned |-> Append(unassigned, student)]

PlacePreferred ==
  /\ pc = "preferred"
  /\ cursor.i <= Len(processedStudents)
  /\ LET after == preferredPass(roomAssignments, unassignedStudents,
                                processedStudents[cursor.i])
     IN /\ roomAssignments' = after.rooms
        /\ unassignedStudents' = after.unassigned
  /\ IF cursor.i = Len(processedStudents)
     THEN /\ cursor' = [cursor EXCEPT !.i = 1, !.roomIdx = 0]
          /\ pc' = "roundrobin"
     ELSE /\ cursor' = [cursor EXCEPT !.i = @ + 1]
          /\ UNCHANGED pc
  /\ UNCHANGED <<students, rooms, nullArgs, seed, validationErrors, processedStudents,
                 diagnostics, roomSubjectGroups, benchSubjects, remainingStudents,
                 assignments, outcome, result>>

(***************************************************************************)
(* greedyPairScheduler, lines 882-888: the round robin over                *)
(* unassignedStudents.  SkipFullRoom is one turn of the while loop,        *)
(* PlaceRoundRobin the push and the advance of roomIdx.                    *)
(***************************************************************************)
\* The test with > in place of >=, a room taking one student beyond capacity.
RoomIsFullBeyondCapacity(ra) == Len(ra.students) > ra.capacity

RoomIsFull(ra) == Len(ra.students) >= ra.capacity

SkipFullRoom ==
  /\ pc = "roundrobin"
  /\ cursor.i <= Len(unassignedStudents)
  /\ RoomIsFull(roomAssignments[cursor.roomIdx + 1])
  /\ cursor' = [cursor EXCEPT !.roomIdx = (@ + 1) % Len(roomAssignments)]
  /\ UNCHANGED <<students, rooms, nullArgs, seed, pc, validationErrors,
                 processedStudents, diagnostics, roomAssignments, unassignedStudents,
                 roomSubjectGroups, benchSubjects, remainingStudents, assignments,
                 outcome, result>>

\* The push without line 887, roomIdx staying on the room just used.
PlaceRoundRobinStaying ==
  /\ pc = "roundrobin"
  /\ cursor.i <= Len(unassignedStudents)
  /\ ~RoomIsFull(roomAssignments[cursor.roomIdx + 1])
  /\ roomAssignments' = [roomAssignments EXCEPT
                           ![cursor.roomIdx + 1].students =
                              Append(@, unassignedStudents[cursor.i])]
  /\ cursor' = [cursor EXCEPT !.i = @ + 1]
  /\ UNCHANGED <<students, rooms, nullArgs, seed, pc, validationErrors,
                 processedStudents, diagnostics, unassignedStudents,
                 roomSubjectGroups, benchSubjects, remainingStudents, assignments,
                 outcome, result>>

PlaceRoundRobin ==
  /\ pc = "roundrobin"
  /\ cursor.i <= Len(unassignedStudents)
  /\ ~RoomIsFull(roomAssignments[cursor.roomIdx + 1])
  /\ roomAssignments' = [roomAssignments EXCEPT
                           ![cursor.roomIdx + 1].students =
                              Append(@, unassignedStudents[cursor.i])]
  /\ cursor' = [cursor EXCEPT !.roomIdx = (@ + 1) % Len(roomAssignments),
                              !.i = @ + 1]
  /\ UNCHANGED <<students, rooms, nullArgs, seed, pc, validationErrors,
                 processedStudents, diagnostics, unassignedStudents,
                 roomSubjectGroups, benchSubjects, remainingStudents, assignments,
                 outcome, result>>

\* The end of unassignedStudents.forEach: on to roomAssignments.forEach (line 891).
EndDistribution ==
  /\ pc = "roundrobin"
  /\ cursor.i > Len(unassignedStudents)
  /\ cursor' = [cursor EXCEPT !.k = 1]
  /\ pc' = "room"
  /\ UNCHANGED <<students, rooms, nullArgs, seed, validationErrors, processedStudents,
                 diagnostics, roomAssignments, unassignedStudents, roomSubjectGroups,
                 benchSubjects, remainingStudents, assignments, outcome, result>>

(***************************************************************************)
(* greedyPairScheduler, lines 891-966: the seats of one room.              *)
(***************************************************************************)
\* const seatsPerBench = room.seats_per_bench || 2
seatsPerBench(room) == IF room.seats_per_bench = 0 THEN 2 ELSE room.seats_per_bench

\* The keys of the non-empty groups in key order, the sort of line 908 left out.
getSortedSubjectsInKeyOrder(groups) ==
  LET kept == SelectSeq(groups, LAMBDA g : Len(g.members) > 0)
  IN [g \in 1..Len(kept) |-> kept[g].subject]

\* The keys of the non-empty groups, sorted by descending size; the sort is
\* stable, so equal sizes keep the key order.
getSortedSubjects(groups) ==
  LET RECURSIVE Sorted(_)
      Sorted(left) ==
        IF left = {} THEN <<>>
        ELSE LET g == CHOOSE x \in left :
                        \A y \in left :
                           \/ Len(groups[x].members) > Len(groups[y].members)
                           \/ Len(groups[x].members) = Len(groups[y].members) /\ x <= y
             IN <<groups[g].subject>> \o Sorted(left \ {g})
  IN Sorted({g \in 1..Len(groups) : Len(groups[g].members) > 0})

SeatLabels == <<"seat_1", "seat_2", "seat_3", "seat_4", "seat_5">>

\* positionLabels ? (positionLabels[seatIdx] || `seat_${seatIdx + 1}`) : `seat_${seatIdx + 1}`
positionOf(perBench, seatIdx) ==
  IF perBench = 2 /\ seatIdx < 2 THEN <<"left", "right">>[seatIdx + 1]
  ELSE SeatLabels[seatIdx + 1]

\* Lines 892-904: the room's students grouped by subject.
StartRoom ==
  /\ pc = "room"
  /\ cursor.k <= Len(roomAssignments)
  /\ roomSubjectGroups' = GroupBySubject(roomAssignments[cursor.k].students)
  /\ remainingStudents' = Len(roomAssignments[cursor.k].students)
  /\ benchSubjects' = {}
  /\ cursor' = [cursor EXCEPT !.benchIdx = 0, !.seatIdx = 0]
  /\ pc' = "seat"
  /\ UNCHANGED <<students, rooms, nullArgs, seed, validationErrors, processedStudents,
                 diagnostics, roomAssignments, unassignedStudents, assignments,
                 outcome, result>>

\* The two loops run on while a bench is left and a student remains.
SeatLoopRuns ==
  /\ cursor.benchIdx < roomAssignments[cursor.k].room.num_benches
  /\ remainingStudents > 0
  /\ getSortedSubjects(roomSubjectGroups) # <<>>

\* The conflict carrying benchIdx, the bench counted from 0.
constraintConflictFromZero(room, benchIdx, student) ==
  Conflict("constraint", room.room_name, benchIdx,
    <<"Had to seat two ", student.subject, " students on bench ",
      Str(benchIdx), " in ", room.room_name>>)

\* Lines 949-954: the conflict of a seat that repeats a subject of its bench.
constraintConflict(room, benchIdx, student) ==
  Conflict("constraint", room.room_name, benchIdx + 1,
    <<"Had to seat two ", student.subject, " students on bench ",
      Str(benchIdx + 1), " in ", room.room_name>>)

\* Lines 916-957: one seat.
AssignSeat ==
  /\ pc = "seat"
  /\ SeatLoopRuns
  /\ LET room == roomAssignments[cursor.k].room
         perBench == seatsPerBench(room)
         availableSubjects == getSortedSubjects(roomSubjectGroups)
         free == {j \in 1..Len(availableSubjects) : availableSubjects[j] \notin benchSubjects}
         respectedConstraint == free # {}
         chosenSubject == IF respectedConstraint
                          THEN availableSubjects[CHOOSE j \in free : \A l \in free : j <= l]
                          ELSE availableSubjects[1]
         g == CHOOSE x \in 1..Len(roomSubjectGroups) :
                roomSubjectGroups[x].subject = chosenSubject
         student == roomSubjectGroups[g].members[Len(roomSubjectGroups[g].members)]
         popped == [roomSubjectGroups EXCEPT ![g].members = SubSeq(@, 1, Len(@) - 1)]
         left == remainingStudents - 1
     IN /\ roomSubjectGroups' = SelectSeq(popped, LAMBDA x : Len(x.members) > 0)
        /\ assignments' = Append(assignments,
             [room_id |-> room.room_id, room_name |-> room.room_name,
              bench_number |-> cursor.benchIdx + 1,
              position |-> positionOf(perBench, cursor.seatIdx),
              student |-> student])
        /\ remainingStudents' = left
        /\ diagnostics' =
             IF respectedConstraint THEN diagnostics
             ELSE [diagnostics EXCEPT !.conflicts = Append(@,
                     constraintConflict(room, cursor.benchIdx, student))]
        /\ IF cursor.seatIdx + 1 < perBench /\ left > 0
           THEN /\ cursor' = [cursor EXCEPT !.seatIdx = @ + 1]
                /\ benchSubjects' = IF respectedConstraint
                                    THEN benchSubjects \cup {student.subject}
                                    ELSE benchSubjects
           ELSE /\ cursor' = [cursor EXCEPT !.benchIdx = @ + 1, !.seatIdx = 0]
                /\ benchSubjects' = {}
  /\ UNCHANGED <<students, rooms, nullArgs, seed, pc, validationErrors,
                 processedStudents, roomAssignments, unassignedStudents, outcome,
                 result>>

\* Lines 960-966: the overflow check that ends a room.
EndRoom ==
  /\ pc = "seat"
  /\ ~SeatLoopRuns
  /\ diagnostics' =
       IF remainingStudents > 0
       THEN [diagnostics EXCEPT !.conflicts = Append(@,
               Conflict("overflow", roomAssignments[cursor.k].room.room_name, NoBench,
                 <<"Not enough benches in ", roomAssignments[cursor.k].room.room_name>>))]
       ELSE diagnostics
  /\ cursor' = [cursor EXCEPT !.k = @ + 1]
  /\ pc' = "room"
  /\ UNCHANGED <<students, rooms, nullArgs, seed, validationErrors, processedStudents,
                 roomAssignments, unassignedStudents, roomSubjectGroups, benchSubjects,
                 remainingStudents, assignments, outcome, result>>

(***************************************************************************)
(* Strings.  A roll or subject is spelled as its sequence of characters;   *)
(* Alphabet lists the characters in the order of their UTF-16 code units,  *)
(* the order Array.prototype.sort() compares strings by.                   *)
(***************************************************************************)
Alphabet == <<"-", "0", "1", "2", "3", "4", "5", "6", "7", "8", "9",
              "A", "B", "C", "m", "o">>

Digits == {"0", "1", "2", "3", "4", "5", "6", "7", "8", "9"}

CharCode(c) == CHOOSE i \in 1..Len(Alphabet) : Alphabet[i] = c

DigitValue(c) == CharCode(c) - CharCode("0")

Spelling(s) ==
  CASE s = "10-1" -> <<"1", "0", "-", "1">>
    [] s = "10-2" -> <<"1", "0", "-", "2">>
    [] s = "10-3" -> <<"1", "0", "-", "3">>
    [] s = "10-5" -> <<"1", "0", "-", "5">>
    [] s = "7"    -> <<"7">>
    [] s = "10-10" -> <<"1", "0", "-", "1", "0">>
    [] s = "A-4"  -> <<"A", "-", "4">>
    [] s = "BBA"  -> <<"B", "B", "A">>
    [] s = "BCom" -> <<"B", "C", "o", "m">>
    [] s = "BCA"  -> <<"B", "C", "A">>

\* a < b as sort() without a comparator orders two strings.
LexLess(a, b) ==
  \E k \in 1..(Len(b)) :
     /\ \A j \in 1..(k - 1) : j <= Len(a) /\ a[j] = b[j]
     /\ \/ k = Len(a) + 1
        \/ k <= Len(a) /\ CharCode(a[k]) < CharCode(b[k])

\* The array left in the order it was filled, sort() not being called.
SortStringsKeepingOrder(strs) == strs

\* array.sort() of strings.
SortStrings(strs) ==
  LET RECURSIVE Sorted(_)
      Sorted(left) ==
        IF left = {} THEN <<>>
        ELSE LET i == CHOOSE x \in left :
                        \A y \in left :
                           \/ LexLess(Spelling(strs[x]), Spelling(strs[y]))
                           \/ ~LexLess(Spelling(strs[y]), Spelling(strs[x])) /\ x <= y
             IN <<strs[i]>> \o Sorted(left \ {i})
  IN Sorted(1..Len(strs))

\* Numbers as parseInt yields them: an integer or NaN.
NaN == [nan |-> TRUE, v |-> 0]
Num(v) == [nan |-> FALSE, v |-> v]

\* The end of the run of digits that starts at position i of chars.
DigitRunEnd(chars, i) ==
  CHOOSE e \in i..Len(chars) :
     /\ \A j \in i..e : chars[j] \in Digits
     /\ e = Len(chars) \/ chars[e + 1] \notin Digits

DecimalValue(chars, i, e) ==
  LET RECURSIVE Go(_, _)
      Go(j, acc) == IF j > e THEN acc ELSE Go(j + 1, acc * 10 + DigitValue(chars[j]))
  IN Go(i, 0)

\* parseInt(r): an optional sign, then the leading digits.
parseInt(chars) ==
  LET neg == Len(chars) > 0 /\ chars[1] = "-"
      i == IF neg THEN 2 ELSE 1
  IN IF i > Len(chars) \/ chars[i] \notin Digits THEN NaN
     ELSE LET v == DecimalValue(chars, i, DigitRunEnd(chars, i))
          IN Num(IF neg THEN 0 - v ELSE v)

\* r.match(/(\d+)-(\d+)/): the leftmost digits, dash, digits; 0 when there is
\* none, else the position of the first digit after the dash.
MatchDashed(chars) ==
  LET at == {i \in 1..Len(chars) :
               /\ chars[i] \in Digits
               /\ LET e == DigitRunEnd(chars, i)
                  IN /\ e + 2 <= Len(chars)
                     /\ chars[e + 1] = "-"
                     /\ chars[e + 2] \in Digits}
  IN IF at = {} THEN 0
     ELSE DigitRunEnd(chars, CHOOSE i \in at : \A j \in at : i <= j) + 2

\* match ? parseInt(match[2]) : parseInt(r)
RollNumber(chars) ==
  LET g == MatchDashed(chars)
  IN IF g # 0 THEN Num(DecimalValue(chars, g, DigitRunEnd(chars, g)))
     ELSE parseInt(chars)

\* `${n}` as characters.
NumberText(n) ==
  LET RECURSIVE Dec(_)
      Dec(v) == IF v < 10 THEN <<Alphabet[CharCode("0") + v]>>
                ELSE Dec(v \div 10) \o <<Alphabet[CharCode("0") + (v % 10)]>>
  IN IF n.nan THEN <<"N", "a", "N">>
     ELSE IF n.v < 0 THEN <<"-">> \o Dec(0 - n.v) ELSE Dec(n.v)

\* start === end ? `${start}` : `${start} to ${end}`
SpanText(start, end) ==
  IF ~start.nan /\ ~end.nan /\ start.v = end.v THEN NumberText(start)
  ELSE NumberText(start) \o <<" ", "t", "o", " ">> \o NumberText(end)

(***************************************************************************)
(* formatRollRanges(rolls), lines 1029-1054; the result as characters.     *)
(***************************************************************************)
formatRollRanges(rolls) ==
  LET nums == [i \in 1..Len(rolls) |-> RollNumber(Spelling(rolls[i]))]
      RECURSIVE Walk(_, _, _, _)
      Walk(i, start, end, ranges) ==
        IF i > Len(nums) THEN Append(ranges, SpanText(start, end))
        ELSE IF ~nums[i].nan /\ ~end.nan /\ nums[i].v = end.v + 1
        THEN Walk(i + 1, start, nums[i], ranges)
        ELSE Walk(i + 1, nums[i], nums[i], Append(ranges, SpanText(start, end)))
      RECURSIVE Join(_, _)
      Join(ranges, k) ==
        IF k > Len(ranges) THEN <<>>
        ELSE (IF k > 1 THEN <<",", " ">> ELSE <<>>) \o ranges[k] \o Join(ranges, k + 1)
  IN IF Len(rolls) = 0 THEN <<>>
     ELSE Join(Walk(2, nums[1], nums[1], <<>>), 1)

(***************************************************************************)
(* generateRoomSummaries(assignments, rooms), lines 983-1024.              *)
(***************************************************************************)
generateRoomSummaries(asg, rm) ==
  [k \in 1..Len(rm) |->
     LET mine == SelectSeq(asg, LAMBDA a : a.room_id = rm[k].room_id)
         groups == GroupBySubject([j \in 1..Len(mine) |-> mine[j].student])
         names == SortStrings([g \in 1..Len(groups) |-> groups[g].subject])
         RollsOf(subject) ==
           LET g == CHOOSE x \in 1..Len(groups) : groups[x].subject = subject
           IN SortStrings([j \in 1..Len(groups[g].members) |-> groups[g].members[j].roll])
     IN [room_id |-> rm[k].room_id,
         room_name |-> rm[k].room_name,
         total |-> Len(mine),
         subjects |-> [s \in 1..Len(names) |->
                         [subject |-> names[s],
                          count |-> Len(RollsOf(names[s])),
                          ranges |-> formatRollRanges(RollsOf(names[s]))]],
         subject_counts |-> [g \in 1..Len(groups) |->
                               [subject |-> groups[g].subject,
                                count |-> Len(groups[g].members)]]]]

(***************************************************************************)
(* formatRollRanges(rolls) of the report-rendering server                  *)
(* (src/unnamed/part_000, lines 550-582): a roll that matches keeps the    *)
(* digits before its dash as a prefix, and a span breaks where the prefix  *)
(* changes.                                                                *)
(***************************************************************************)
\* Where the match of /(\d+)-(\d+)/ starts; 0 when there is none.
MatchDashedStart(chars) ==
  LET at == {i \in 1..Len(chars) :
               /\ chars[i] \in Digits
               /\ LET e == DigitRunEnd(chars, i)
                  IN /\ e + 2 <= Len(chars)
                     /\ chars[e + 1] = "-"
                     /\ chars[e + 2] \in Digits}
  IN IF at = {} THEN 0 ELSE CHOOSE i \in at : \A j \in at : i <= j

\* match ? { prefix: match[1], num: parseInt(match[2]) } : { prefix: '', num: parseInt(r) }
serverRollNumber(chars) ==
  LET st == MatchDashedStart(chars)
  IN IF st # 0
     THEN [prefix |-> SubSeq(chars, st, DigitRunEnd(chars, st)),
           num |-> RollNumber(chars)]
     ELSE [prefix |-> <<>>, num |-> parseInt(chars)]

\* The four template strings of lines 566-572 and 575-579.
serverSpanText(start, end) ==
  LET same == ~start.num.nan /\ ~end.num.nan /\ start.num.v = end.num.v
      head == IF start.prefix # <<>> THEN start.prefix \o <<"-">> ELSE <<>>
  IN IF same THEN head \o NumberText(start.num)
     ELSE head \o NumberText(start.num) \o <<" ", "t", "o", " ">> \o NumberText(end.num)

serverFormatRollRanges(rolls) ==
  LET nums == [i \in 1..Len(rolls) |-> serverRollNumber(Spelling(rolls[i]))]
      RECURSIVE Walk(_, _, _, _)
      Walk(i, start, end, ranges) ==
        IF i > Len(nums) THEN Append(ranges, serverSpanText(start, end))
        ELSE IF /\ nums[i].prefix = end.prefix
                /\ ~nums[i].num.nan /\ ~end.num.nan /\ nums[i].num.v = end.num.v + 1
        THEN Walk(i + 1, start, nums[i], ranges)
        ELSE Walk(i + 1, nums[i], nums[i], Append(ranges, serverSpanText(start, end)))
      RECURSIVE Join(_, _)
      Join(ranges, k) ==
        IF k > Len(ranges) THEN <<>>
        ELSE (IF k > 1 THEN <<",", " ">> ELSE <<>>) \o ranges[k] \o Join(ranges, k + 1)
  IN IF Len(rolls) = 0 THEN <<>>
     ELSE Join(Walk(2, nums[1], nums[1], <<>>), 1)

\* success computed from feasible alone.
successIgnoringConflicts(diag) == diag.feasible

\* Line 973: success: diagnostics.feasible && diagnostics.conflicts.length === 0
successOf(diag) == diag.feasible /\ Len(diag.conflicts) = 0

\* Lines 969-977: the summaries and the result.
Finish ==
  /\ pc = "room"
  /\ cursor.k > Len(roomAssignments)
  /\ Return(Returned(successOf(diagnostics), assignments, diagnostics,
                     generateRoomSummaries(assignments, rooms)))
  /\ UNCHANGED <<students, rooms, nullArgs, seed, validationErrors, processedStudents,
                 diagnostics, roomAssignments, unassignedStudents, cursor,
                 roomSubjectGroups, benchSubjects, remainingStudents, assignments>>

Next ==
  \/ Validate
  \/ Shuffle
  \/ CheckCapacity
  \/ CheckSubjects
  \/ PlacePreferred
  \/ SkipFullRoom
  \/ PlaceRoundRobin
  \/ EndDistribution
  \/ StartRoom
  \/ AssignSeat
  \/ EndRoom
  \/ Finish

Spec == Init /\ [][Next]_vars

\* The calls whose arguments validateConstraints accepts.
InitValidInput ==
  /\ Init
  /\ ~validateConstraints(students, rooms, nullArgs).threw
  /\ validateConstraints(students, rooms, nullArgs).errors = <<>>

SpecValidInput == InitValidInput /\ [][Next]_vars

\* schedule at line 1107, validation passed, for more seeds and for student
\* lists of up to Len(RollNames) students.
ShuffleSeeds == -20..20

InitShuffle ==
  /\ InitLocals
  /\ nullArgs = {}
  /\ students \in {[i \in 1..n |-> Student(RollNames[i], SubjectNames[1], NoPreference)] :
                     n \in 1..Len(RollNames)}
  /\ rooms = <<Room(RoomIds[1], RoomNames[1], NamedRoomShape.num_benches,
                    NamedRoomShape.seats_per_bench)>>
  /\ seed \in {<<s>> : s \in ShuffleSeeds}

AfterValidation ==
  /\ pc = "schedule"
  /\ validateConstraints(students, rooms, nullArgs).errors = <<>>
  /\ Validate

SpecShuffle == InitShuffle /\ [][AfterValidation \/ Shuffle]_vars

(***************************************************************************)
(* generateRoomSummaries called on its own (it is exported, line 1149),    *)
(* with up to MaxSummarised assignments of rolls drawn from SummaryRolls.  *)
(***************************************************************************)
SummaryRolls == <<"10-1", "10-2", "10-3", "10-5", "7", "10-10", "A-4">>

SummaryRooms ==
  <<Room(RoomIds[1], RoomNames[1], 2, 3), Room(RoomIds[2], RoomNames[2], 1, 2)>>

\* n assignments fill the benches of room 1 in order; the last one may sit
\* in room 2 instead.
SummaryAssignments(n, r, sub, inSecond) ==
  [j \in 1..n |->
     LET room == IF j = n /\ inSecond THEN SummaryRooms[2] ELSE SummaryRooms[1]
     IN [room_id |-> room.room_id, room_name |-> room.room_name,
         bench_number |-> IF j = n /\ inSecond THEN 1 ELSE 1 + ((j - 1) \div 3),
         position |-> IF j = n /\ inSecond THEN "left" ELSE SeatLabels[1 + ((j - 1) % 3)],
         student |-> Student(SummaryRolls[r[j]], SubjectNames[sub[j]], NoPreference)]]

\* The choices of n distinct rolls, in every order.
DistinctRolls(n) ==
  {f \in [1..n -> 1..Len(SummaryRolls)] : \A i, j \in 1..n : i # j => f[i] # f[j]}

InitSummaries ==
  /\ nullArgs = {}
  /\ students = <<>>
  /\ rooms = SummaryRooms
  /\ seed = <<>>
  /\ pc = "summaries"
  /\ validationErrors = <<>>
  /\ processedStudents = <<>>
  /\ diagnostics = [feasible |-> TRUE, conflicts |-> <<>>, suggestions |-> <<>>]
  /\ roomAssignments = <<>>
  /\ unassignedStudents = <<>>
  /\ cursor = [i |-> 0, roomIdx |-> 0, k |-> 0, benchIdx |-> 0, seatIdx |-> 0]
  /\ roomSubjectGroups = <<>>
  /\ benchSubjects = {}
  /\ remainingStudents = 0
  /\ \E n \in 0..MaxSummarised :
        \E r \in DistinctRolls(n), sub \in FirstOccurrenceForms(n, Len(SubjectNames)),
           inSecond \in BOOLEAN :
           assignments = SummaryAssignments(n, r, sub, inSecond)
  /\ outcome = "pending"
  /\ result = NoResult

\* The summaries returned are kept in result.room_summaries, next to the
\* assignments they were made from.
Summarise ==
  /\ pc = "summaries"
  /\ Return([result EXCEPT !.assignments = assignments,
                           !.room_summaries = generateRoomSummaries(assignments, rooms)])
  /\ UNCHANGED <<students, rooms, nullArgs, seed, validationErrors, processedStudents,
                 diagnostics, roomAssignments, unassignedStudents, cursor,
                 roomSubjectGroups, benchSubjects, remainingStudents, assignments>>

SpecSummaries == InitSummaries /\ [][Summarise]_vars

\* The calls that pass a room outside the contract.
SpecMalformedRooms == InitMalformedRooms /\ [][Next]_vars

(***************************************************************************)
(* Properties.                                                             *)
(***************************************************************************)
HasReturned == pc = "done" /\ outcome = "returned"

SeatOf(a) == <<a.room_id, a.bench_number, a.position>>

\* Both feasibility checks ran and passed: roomAssignments exists (line 857).
PreChecksPassed == roomAssignments # <<>>

\* No student has been given a room or a seat.
NothingPlaced ==
  /\ \A k \in 1..Len(roomAssignments) : roomAssignments[k].students = <<>>
  /\ unassignedStudents = <<>>
  /\ assignments = <<>>

ConflictTypes(diag) == {diag.conflicts[c].type : c \in 1..Len(diag.conflicts)}

\* C1: in the result of any schedule call no (room_id, bench_number,
\* position) tuple appears in two different assignments.
C1_NoSeatTwice ==
  HasReturned =>
    \A i, j \in 1..Len(result.assignments) :
       i # j => SeatOf(result.assignments[i]) # SeatOf(result.assignments[j])

\* The same for rooms whose room_id values are pairwise distinct.
RoomIdsDistinct == \A k, l \in 1..Len(rooms) : k # l => rooms[k].room_id # rooms[l].room_id

NoSeatTwiceForDistinctRoomIds == RoomIdsDistinct => C1_NoSeatTwice

\* C2: whenever schedule returns success=true, there are as many
\* assignments as input students and every input student is in exactly one.
C2_Conservation ==
  (HasReturned /\ result.success) =>
    /\ Len(result.assignments) = Len(students)
    /\ \A i \in 1..Len(students) :
         Cardinality({j \in 1..Len(result.assignments) :
                        result.assignments[j].student = students[i]}) = 1

C2_Witness ==
  /\ HasReturned /\ result.success
  /\ Len(students) >= 3 /\ Len(rooms) >= 2
  /\ seed # <<>>
  /\ \E i \in 1..Len(students) : students[i].preferred_room # NoPreference

\* C3: whenever schedule returns success=true, no bench (same room_id and
\* bench_number) holds two assignments whose students share a subject.
C3_NoSharedSubjectOnBench ==
  (HasReturned /\ result.success) =>
    \A i, j \in 1..Len(result.assignments) :
       LET a == result.assignments[i]
           b == result.assignments[j]
       IN (i # j /\ a.room_id = b.room_id /\ a.bench_number = b.bench_number)
            => a.student.subject # b.student.subject

\* The same for rooms whose room_id values are pairwise distinct.
NoSharedSubjectForDistinctRoomIds == RoomIdsDistinct => C3_NoSharedSubjectOnBench

\* C4: for every result of schedule, success is true if and only if
\* diagnostics.feasible is true and diagnostics.conflicts is empty.
C4_SuccessIffFeasibleAndNoConflict ==
  HasReturned =>
    (result.success <=>
       (result.diagnostics.feasible /\ result.diagnostics.conflicts = <<>>))

\* Every student is seated and one constraint conflict makes success false.
C4_Witness ==
  /\ HasReturned /\ ~result.success
  /\ Len(result.assignments) = Len(students)
  /\ result.diagnostics.feasible
  /\ Len(result.diagnostics.conflicts) = 1
  /\ ConflictTypes(result.diagnostics) = {"constraint"}

\* C5: if the number of students exceeds the total capacity of the rooms,
\* schedule returns success=false, feasible=false, empty assignments and
\* room_summaries and a suggestion stating the seat deficit, and no student
\* is distributed or seated.
CapacitySuggestion(need, have) ==
  <<"Not enough capacity. Need ", Str(need), " seats but have ", Str(have), ".">>

C5_CapacityShortfall ==
  ("rooms" \notin nullArgs /\ Len(students) > totalCapacity(rooms)) =>
    /\ NothingPlaced
    /\ pc = "done" =>
         /\ outcome = "returned"
         /\ ~result.success
         /\ ~result.diagnostics.feasible
         /\ result.assignments = <<>>
         /\ result.room_summaries = <<>>
         /\ CapacitySuggestion(Len(students), totalCapacity(rooms))
              \in Range(result.diagnostics.suggestions)

\* C6: if total capacity is sufficient and the largest subject group s
\* exceeds ceil(n/2), schedule returns success=false, feasible=false, empty
\* assignments and an 'infeasible' conflict without placing anyone; if
\* s <= ceil(n/2) the check emits nothing.
C6_SubjectDistribution ==
  (Len(students) > 0 /\ "rooms" \notin nullArgs
     /\ Len(students) <= totalCapacity(rooms)) =>
    IF maxSubjectCount(students) > CeilHalf(Len(students))
    THEN /\ NothingPlaced
         /\ pc = "done" =>
              /\ outcome = "returned"
              /\ ~result.success
              /\ ~result.diagnostics.feasible
              /\ result.assignments = <<>>
              /\ "infeasible" \in ConflictTypes(result.diagnostics)
    ELSE /\ "infeasible" \notin ConflictTypes(diagnostics)
         /\ HasReturned => "infeasible" \notin ConflictTypes(result.diagnostics)

\* C8: when both pre-checks pass and the students whose preferred_room is
\* the name or id of a room r are at most capacity(r), each of them is
\* seated in r.
SeatedIn(student, room) ==
  \E j \in 1..Len(result.assignments) :
     /\ result.assignments[j].student = student
     /\ result.assignments[j].room_id = room.room_id
     /\ result.assignments[j].room_name = room.room_name

Preferring(r) ==
  {i \in 1..Len(students) :
     /\ students[i].preferred_room # NoPreference
     /\ students[i].preferred_room \in {rooms[r].room_name, rooms[r].room_id}}

C8_PreferredRoomHonoured ==
  (PreChecksPassed /\ pc = "done") =>
    /\ outcome = "returned"
    /\ \A r \in 1..Len(rooms) :
         Cardinality(Preferring(r)) <= capacity(rooms[r]) =>
           \A i \in Preferring(r) : SeatedIn(students[i], rooms[r])

\* C8 as amended: r is the first room, in the order of rooms, whose name or
\* id equals the preferred_room.
Matches(pref, room) == pref \in {room.room_name, room.room_id}

PreferringFirst(r) ==
  {i \in 1..Len(students) :
     /\ students[i].preferred_room # NoPreference
     /\ Matches(students[i].preferred_room, rooms[r])
     /\ \A l \in 1..(r - 1) : ~Matches(students[i].preferred_room, rooms[l])}

C8_FirstMatchingRoomHonoured ==
  (PreChecksPassed /\ pc = "done") =>
    /\ outcome = "returned"
    /\ \A r \in 1..Len(rooms) :
         Cardinality(PreferringFirst(r)) <= capacity(rooms[r]) =>
           \A i \in PreferringFirst(r) : SeatedIn(students[i], rooms[r])

\* A student without preference sits in room 1 and two students sit in the
\* room 2 they asked for by its id.
C8_Witness ==
  /\ HasReturned /\ PreChecksPassed
  /\ Len(rooms) = 2
  /\ Cardinality(PreferringFirst(2)) = 2
  /\ \E i \in 1..Len(students) :
        /\ students[i].preferred_room = NoPreference
        /\ SeatedIn(students[i], rooms[1])

\* C9: validateConstraints never raises, whatever its arguments.
C9_ValidateNeverRaises == ~validateConstraints(students, rooms, nullArgs).threw

\* C10: validateConstraints reports an empty student list, an empty room
\* list and every repeated roll in one call, and returns the empty list
\* exactly when students and rooms are non-empty and the rolls distinct.
Occurrences(roll) == Cardinality({i \in 1..Len(students) : students[i].roll = roll})

C10_ValidateAccumulates ==
  (pc # "schedule" /\ "students" \notin nullArgs) =>
    /\ Len(students) = 0 => <<"No students provided">> \in Range(validationErrors)
    /\ ("rooms" \in nullArgs \/ Len(rooms) = 0)
         => <<"No rooms provided">> \in Range(validationErrors)
    /\ \A i \in 1..Len(students) :
         Cardinality({e \in 1..Len(validationErrors) :
            validationErrors[e] = <<"Duplicate roll number: ", students[i].roll>>})
           = Occurrences(students[i].roll) - 1
    /\ validationErrors = <<>> <=>
         /\ Len(students) > 0
         /\ "rooms" \notin nullArgs /\ Len(rooms) > 0
         /\ \A i \in 1..Len(students) : Occurrences(students[i].roll) = 1

\* No rooms and a roll given three times: three problems in one list.
C10_Witness ==
  /\ pc # "schedule" /\ "students" \notin nullArgs
  /\ Len(rooms) = 0
  /\ \E i \in 1..Len(students) : Occurrences(students[i].roll) = 3
  /\ Len(validationErrors) = 3

\* C11: when validateConstraints reports problems, schedule returns at once:
\* success=false, no assignments, no room summaries and one 'validation'
\* conflict per problem in the order reported, having shuffled, checked,
\* distributed and seated nothing.
InitialDiagnostics == [feasible |-> TRUE, conflicts |-> <<>>, suggestions |-> <<>>]

C11_ValidationIsFatal ==
  validationErrors # <<>> =>
    /\ HasReturned
    /\ ~result.success
    /\ result.assignments = <<>>
    /\ result.room_summaries = <<>>
    /\ Len(result.diagnostics.conflicts) = Len(validationErrors)
    /\ \A e \in 1..Len(validationErrors) :
         /\ result.diagnostics.conflicts[e].type = "validation"
         /\ result.diagnostics.conflicts[e].message = validationErrors[e]
    /\ processedStudents = <<>>
    /\ diagnostics = InitialDiagnostics
    /\ roomAssignments = <<>>
    /\ NothingPlaced

\* A seed is given, there is no room and one of three rolls repeats: the
\* result holds 'No rooms provided' and then the duplicate message.
C11_Witness ==
  /\ HasReturned
  /\ seed # <<>>
  /\ Len(students) = 3 /\ Len(rooms) = 0
  /\ Len(validationErrors) = 2
  /\ validationErrors[1] = <<"No rooms provided">>
  /\ Len(result.diagnostics.conflicts) = 2

\* C12: diagnostics.feasible is false in a result only when the capacity
\* check or the subject-distribution check of the Feasibility Checker
\* failed; validation, room distribution and seat assignment never set it
\* to false.
CapacityCheckFails == Len(students) > totalCapacity(rooms)

SubjectCheckFails ==
  /\ ~CapacityCheckFails
  /\ 2 * maxSubjectCount(students) > Len(students) + 1

\* Validation passed and one of the two checks failed.
FeasibilityCheckFailed ==
  /\ validationErrors = <<>>
  /\ CapacityCheckFails \/ SubjectCheckFails

PlacementStages == {"preferred", "roundrobin", "room", "seat"}

C12_FeasibleFalseOnlyByChecker ==
  /\ (HasReturned /\ ~result.diagnostics.feasible) => FeasibilityCheckFailed
  /\ pc \in PlacementStages => diagnostics.feasible
  /\ (HasReturned /\ PreChecksPassed) => result.diagnostics.feasible

\* C12 as amended: feasible is false in a result only when validation
\* failed or one of the two feasibility checks failed; room distribution
\* and seat assignment never set it to false.
C12_FeasibleFalseOnlyByValidationOrChecker ==
  /\ (HasReturned /\ ~result.diagnostics.feasible) =>
        (validationErrors # <<>> \/ FeasibilityCheckFailed)
  /\ pc \in PlacementStages => diagnostics.feasible
  /\ (HasReturned /\ PreChecksPassed) => result.diagnostics.feasible

\* Valid students fit the rooms and too many of them share one subject:
\* feasible is false by the subject-distribution check.
C12_Witness ==
  /\ HasReturned
  /\ ~result.diagnostics.feasible
  /\ validationErrors = <<>>
  /\ ~CapacityCheckFails
  /\ "infeasible" \in ConflictTypes(result.diagnostics)

\* C13: for students and rooms given as sequences (rooms of positive
\* num_benches and seats_per_bench), schedule ends by returning a result and
\* never by throwing, and the round robin always has a room below its
\* capacity to reach.
SequencesGiven == "students" \notin nullArgs /\ "rooms" \notin nullArgs

RoundRobinFindsRoom ==
  (pc = "roundrobin" /\ cursor.i <= Len(unassignedStudents)) =>
    \E k \in 1..Len(roomAssignments) : ~RoomIsFull(roomAssignments[k])

C13_AlwaysReturns ==
  SequencesGiven =>
    /\ pc = "done" => outcome = "returned"
    /\ RoundRobinFindsRoom

\* The same for the calls that give no seed.
AlwaysReturnsWithoutSeed == seed = <<>> => C13_AlwaysReturns

\* C14: a room whose num_benches or seats_per_bench is not a positive
\* integer makes schedule return success=false with a 'validation' conflict
\* and no assignments.
C14_MalformedRoomFailsClosed ==
  ((\E k \in 1..Len(rooms) : ~IsPositiveRoom(rooms[k])) /\ pc = "done") =>
    /\ outcome = "returned"
    /\ ~result.success
    /\ "validation" \in ConflictTypes(result.diagnostics)
    /\ result.assignments = <<>>

\* A room of -1 benches and -2 seats per bench is taken to hold two students.
MalformedRoomAccepted ==
  /\ HasReturned
  /\ validationErrors = <<>>
  /\ \E k \in 1..Len(rooms) :
        /\ ~IsPositiveRoom(rooms[k])
        /\ Len(roomAssignments) >= k
        /\ Len(roomAssignments[k].students) = 2
  /\ "overflow" \in ConflictTypes(result.diagnostics)
  /\ result.diagnostics.feasible

\* C15: for every sequence and every integer seed, seededShuffle returns a
\* permutation of its input: the same length and the same elements as often,
\* none lost, duplicated or replaced by an undefined value.
CountIn(seq, x) == Cardinality({i \in 1..Len(seq) : seq[i] = x})

IsPermutation(a, b) ==
  /\ Len(a) = Len(b)
  /\ \A x \in Range(a) \cup Range(b) : CountIn(a, x) = CountIn(b, x)

C15_ShuffleIsPermutation ==
  (pc = "capacity" /\ seed # <<>>) =>
    /\ IsPermutation(processedStudents, students)
    /\ Undefined \notin Range(processedStudents)

\* The same for the seeds that are not negative.
ShuffleIsPermutationForNaturalSeeds ==
  (seed # <<>> /\ seed[1] >= 0) => C15_ShuffleIsPermutation

\* A negative seed whose shuffle is a permutation other than the identity.
NegativeSeedPermutes ==
  /\ pc = "capacity" /\ seed # <<>> /\ seed[1] < 0
  /\ IsPermutation(processedStudents, students)
  /\ processedStudents # students

\* C16: generateRoomSummaries returns one summary per input room, in room
\* order, also for a room without students (total 0); a summary's total is
\* the number of assignments with that room_id, its subjects list is sorted
\* by subject name with one entry per subject present, and the entry counts
\* sum to total.
SummariesGenerated ==
  HasReturned /\ validationErrors = <<>> /\ result.diagnostics.feasible

AssignmentsIn(room_id) ==
  {j \in 1..Len(result.assignments) : result.assignments[j].room_id = room_id}

C16_OneSummaryPerRoom ==
  SummariesGenerated =>
    /\ Len(result.room_summaries) = Len(rooms)
    /\ \A k \in 1..Len(rooms) :
         LET summary == result.room_summaries[k]
             mine == AssignmentsIn(rooms[k].room_id)
             entries == summary.subjects
         IN /\ summary.room_id = rooms[k].room_id
            /\ summary.room_name = rooms[k].room_name
            /\ summary.total = Cardinality(mine)
            /\ \A a, b \in 1..Len(entries) :
                 a < b => LexLess(Spelling(entries[a].subject), Spelling(entries[b].subject))
            /\ {entries[a].subject : a \in 1..Len(entries)}
                 = {result.assignments[j].student.subject : j \in mine}
            /\ \A a \in 1..Len(entries) :
                 entries[a].count =
                   Cardinality({j \in mine :
                      result.assignments[j].student.subject = entries[a].subject})
            /\ SumSeq([a \in 1..Len(entries) |-> entries[a].count]) = summary.total

\* Room 2 has no student; room 1 has BBA, BCom and BCA, met in that order
\* and listed as BBA, BCA, BCom.
C16_Witness ==
  /\ SummariesGenerated
  /\ Len(result.room_summaries) = 2
  /\ result.room_summaries[2].total = 0
  /\ result.room_summaries[2].subjects = <<>>
  /\ Len(result.room_summaries[1].subjects) = 3
  /\ result.assignments[2].student.subject = "BCom"
  /\ result.room_summaries[1].subjects[2].subject = "BCA"

\* C17: the ranges string of a subject is made from its rolls sorted
\* lexically by taking each roll's numeric suffix (the digits after the
\* dash, or the whole value of a bare numeric roll): each maximal run of
\* consecutive integers becomes "start to end", a single value the bare
\* number, and the spans are joined by ", ".
NumericSuffix(chars) ==
  LET dashes == {i \in 1..Len(chars) : chars[i] = "-"}
  IN IF dashes = {} THEN DecimalValue(chars, 1, Len(chars))
     ELSE DecimalValue(chars, MaxOf(dashes) + 1, Len(chars))

\* The positions where a run starts, and where the run that starts at i ends.
RunStarts(nums) == {i \in 1..Len(nums) : i = 1 \/ nums[i] # nums[i - 1] + 1}

RunEnd(nums, i) ==
  MaxOf({j \in i..Len(nums) : \A l \in (i + 1)..j : l \notin RunStarts(nums)})

RunsText(nums) ==
  LET RECURSIVE From(_)
      From(i) ==
        IF i > Len(nums) THEN <<>>
        ELSE LET e == RunEnd(nums, i)
             IN (IF i > 1 THEN <<",", " ">> ELSE <<>>)
                \o NumberText(Num(nums[i]))
                \o (IF e > i THEN <<" ", "t", "o", " ">> \o NumberText(Num(nums[e]))
                    ELSE <<>>)
                \o From(e + 1)
  IN From(1)

\* The rolls of one subject among the assignments of one room, sorted.
SortedRollsOf(room_id, subject) ==
  LET mine == SelectSeq(result.assignments,
                        LAMBDA a : a.room_id = room_id /\ a.student.subject = subject)
  IN SortStrings([j \in 1..Len(mine) |-> mine[j].student.roll])

ExpectedRanges(rolls) ==
  RunsText([i \in 1..Len(rolls) |-> NumericSuffix(Spelling(rolls[i]))])

C17_RangesOfSuffixRuns ==
  SummariesGenerated =>
    \A k \in 1..Len(result.room_summaries) :
       \A e \in 1..Len(result.room_summaries[k].subjects) :
          LET entry == result.room_summaries[k].subjects[e]
          IN entry.ranges = ExpectedRanges(SortedRollsOf(rooms[k].room_id, entry.subject))

\* The same for rolls that are digits, a dash and digits, or digits alone.
IsNumericRoll(chars) == \A i \in 1..Len(chars) : chars[i] \in Digits \cup {"-"}

RangesOfSuffixRunsOfNumericRolls ==
  SummariesGenerated =>
    \A k \in 1..Len(result.room_summaries) :
       \A e \in 1..Len(result.room_summaries[k].subjects) :
          LET entry == result.room_summaries[k].subjects[e]
              rolls == SortedRollsOf(rooms[k].room_id, entry.subject)
          IN (\A i \in 1..Len(rolls) : IsNumericRoll(Spelling(rolls[i])))
               => entry.ranges = ExpectedRanges(rolls)

\* Rolls 10-1, 10-2, 10-3, 10-5 of one subject are summarised as "1 to 3, 5".
RangesExample ==
  /\ SummariesGenerated
  /\ \E e \in 1..Len(result.room_summaries[1].subjects) :
        /\ result.room_summaries[1].subjects[e].count = 4
        /\ result.room_summaries[1].subjects[e].ranges
             = <<"1", " ", "t", "o", " ", "3", ",", " ", "5">>

\* C18: for every list of rolls, formatRollRanges of the report-rendering
\* server returns the string formatRollRanges of the summary generator
\* returns.
C18_ServerRangesAgree ==
  SummariesGenerated =>
    \A k \in 1..Len(result.room_summaries) :
       \A e \in 1..Len(result.room_summaries[k].subjects) :
          LET entry == result.room_summaries[k].subjects[e]
          IN serverFormatRollRanges(SortedRollsOf(rooms[k].room_id, entry.subject))
               = entry.ranges

\* The two agree on rolls without a dash.
ServerRangesAgreeOnBareRolls ==
  SummariesGenerated =>
    \A k \in 1..Len(result.room_summaries) :
       \A e \in 1..Len(result.room_summaries[k].subjects) :
          LET entry == result.room_summaries[k].subjects[e]
              rolls == SortedRollsOf(rooms[k].room_id, entry.subject)
          IN (\A i \in 1..Len(rolls) : MatchDashedStart(Spelling(rolls[i])) = 0)
               => serverFormatRollRanges(rolls) = entry.ranges

\* C20: when more students prefer a room r than r has seats, exactly the
\* first capacity(r) of them in the caller's input order are seated in r,
\* and the later ones are placed by the round robin in other rooms.
PlacedIn(student, r) == student \in Range(roomAssignments[r].students)

\* Of the sequence order, the first capacity(r) students of the set wanting
\* are in room r, the others of the set in other rooms by the round robin.
FirstComeFirstServed(order, wanting, r) ==
  LET queue == SelectSeq(order, LAMBDA st : st \in wanting)
  IN Len(queue) > capacity(rooms[r]) =>
       /\ \A i \in 1..capacity(rooms[r]) :
            PlacedIn(queue[i], r) /\ SeatedIn(queue[i], rooms[r])
       /\ \A i \in (capacity(rooms[r]) + 1)..Len(queue) :
            /\ ~PlacedIn(queue[i], r)
            /\ queue[i] \in Range(unassignedStudents)
            /\ \E l \in 1..Len(rooms) : l # r /\ PlacedIn(queue[i], l)

C20_FirstComeInInputOrder ==
  (HasReturned /\ PreChecksPassed) =>
    \A r \in 1..Len(rooms) :
       FirstComeFirstServed(students, {students[i] : i \in Preferring(r)}, r)

\* C20 as amended: when placement runs, r is the first room whose name or
\* id equals the preferred_room, and the order is the one schedule
\* processes the students in: the input order, shuffled when a seed is given.
C20_FirstComeInProcessingOrder ==
  (HasReturned /\ PreChecksPassed) =>
    \A r \in 1..Len(rooms) :
       FirstComeFirstServed(processedStudents,
                            {students[i] : i \in PreferringFirst(r)}, r)

\* Three students prefer a room of fewer seats, and the shuffle has put
\* another of them first than the input order has.
C20_Witness ==
  /\ HasReturned /\ PreChecksPassed
  /\ seed # <<>>
  /\ \E r \in 1..Len(rooms) :
        LET wanting == {students[i] : i \in PreferringFirst(r)}
        IN /\ Cardinality(wanting) = 3
           /\ capacity(rooms[r]) < 3
           /\ SelectSeq(processedStudents, LAMBDA st : st \in wanting)[1]
                # SelectSeq(students, LAMBDA st : st \in wanting)[1]

\* C21: the students not placed by preference are distributed in their list
\* order, each to the first room at or cyclically after a cursor that is
\* below its capacity, the cursor then moving to the next room; so without
\* preferences and without a room filling up, student i goes to room
\* i mod R and the head counts of the rooms differ by at most one.
DistributionDone == pc \in {"room", "seat"} \/ (HasReturned /\ PreChecksPassed)

\* The students room k held when the preferred pass ended.
PlacedByPreference(k) ==
  SelectSeq(roomAssignments[k].students, LAMBDA st : st \notin Range(unassignedStudents))

\* The first room at or cyclically after room c (counted from 0) that holds
\* fewer students than its capacity.
FirstRoomBelowCapacity(held, c) ==
  LET R == Len(held)
      open == {d \in 0..(R - 1) :
                 Len(held[((c + d) % R) + 1]) < capacity(rooms[((c + d) % R) + 1])}
  IN (c + (CHOOSE d \in open : \A e \in open : d <= e)) % R

RoundRobinFrom(held, i, c) ==
  LET RECURSIVE Go(_, _, _)
      Go(h, j, cur) ==
        IF j > Len(unassignedStudents) THEN h
        ELSE LET k == FirstRoomBelowCapacity(h, cur)
             IN Go([h EXCEPT ![k + 1] = Append(@, unassignedStudents[j])],
                   j + 1, (k + 1) % Len(h))
  IN Go(held, i, c)

C21_RoundRobinInListOrder ==
  DistributionDone =>
    /\ [k \in 1..Len(rooms) |-> roomAssignments[k].students]
         = RoundRobinFrom([k \in 1..Len(rooms) |-> PlacedByPreference(k)], 1, 0)
    /\ ( /\ \A k \in 1..Len(rooms) : PlacedByPreference(k) = <<>>
         /\ \A k \in 1..Len(rooms) :
              Len(roomAssignments[k].students) < capacity(rooms[k]) )
         => /\ \A i \in 1..Len(unassignedStudents) :
                 unassignedStudents[i]
                   \in Range(roomAssignments[((i - 1) % Len(rooms)) + 1].students)
            /\ \A k, l \in 1..Len(rooms) :
                 Len(roomAssignments[k].students) - Len(roomAssignments[l].students) <= 1

\* Room 2 is full by preference, and the round robin passes it over for the
\* second student, whose turn falls on it.
C21_Witness ==
  /\ pc = "room"
  /\ Len(rooms) = 2
  /\ PlacedByPreference(2) # <<>>
  /\ Len(PlacedByPreference(2)) = capacity(rooms[2])
  /\ Len(unassignedStudents) = 2
  /\ \A i \in 1..Len(unassignedStudents) :
        unassignedStudents[i] \in Range(roomAssignments[1].students)

\* C22: at every seat filled in a room the student comes from a largest
\* remaining subject group of the room among the groups whose subject is not
\* yet on the current bench; the largest remaining group of all is used only
\* when every remaining subject is already on the bench.
SeatStep == pc = "seat" /\ Len(assignments') = Len(assignments) + 1

\* The subjects seated so far on bench b of the room being filled.
SubjectsOnBench(b) ==
  LET room == roomAssignments[cursor.k].room
  IN {assignments[j].student.subject :
        j \in {i \in 1..Len(assignments) :
                 /\ assignments[i].room_id = room.room_id
                 /\ assignments[i].room_name = room.room_name
                 /\ assignments[i].bench_number = b}}

RemainingIn(subject) ==
  UNION {Range(roomSubjectGroups[g].members) :
           g \in {x \in 1..Len(roomSubjectGroups) :
                    roomSubjectGroups[x].subject = subject}}

RemainingSubjects ==
  {roomSubjectGroups[g].subject :
     g \in {x \in 1..Len(roomSubjectGroups) : Len(roomSubjectGroups[x].members) > 0}}

C22_LargestGroupNotOnBench ==
  [][SeatStep =>
       LET a == assignments'[Len(assignments')]
           chosen == a.student.subject
           free == RemainingSubjects \ SubjectsOnBench(a.bench_number)
           among == IF free # {} THEN free ELSE RemainingSubjects
       IN /\ a.student \in RemainingIn(chosen)
          /\ chosen \in among
          /\ \A t \in among :
               Cardinality(RemainingIn(chosen)) >= Cardinality(RemainingIn(t))]_vars

\* One room, students of BBA, BCom, BCom in that order: the first seat goes
\* to BCom, the larger group, though BBA is the first key.
C22_Witness ==
  /\ pc = "seat"
  /\ Len(rooms) = 1
  /\ Len(processedStudents) = 3
  /\ processedStudents[1].subject = "BBA"
  /\ processedStudents[2].subject = "BCom"
  /\ processedStudents[3].subject = "BCom"
  /\ Len(assignments) >= 1
  /\ assignments[1].student.subject = "BCom"

\* C23: a 'constraint' conflict with the room name and the 1-based bench
\* number is recorded for exactly the seats whose student's subject was
\* already on the same bench, one per such seat; so there are as many
\* constraint conflicts as assignments repeating a subject of their bench.
SameBench(a, b) ==
  /\ a.room_id = b.room_id
  /\ a.room_name = b.room_name
  /\ a.bench_number = b.bench_number

\* The assignments, in the order made, whose subject an earlier assignment
\* of the same bench has.
RepeatingSeats ==
  SelectSeq([j \in 1..Len(assignments) |-> j],
            LAMBDA j : \E i \in 1..(j - 1) :
                          /\ SameBench(assignments[i], assignments[j])
                          /\ assignments[i].student.subject
                               = assignments[j].student.subject)

ConstraintConflicts == SelectSeq(diagnostics.conflicts, LAMBDA c : c.type = "constraint")

C23_ConstraintConflictPerRepeat ==
  (PreChecksPassed /\ outcome # "threw") =>
    /\ Len(ConstraintConflicts) = Len(RepeatingSeats)
    /\ \A m \in 1..Len(RepeatingSeats) :
         /\ ConstraintConflicts[m].room = assignments[RepeatingSeats[m]].room_name
         /\ ConstraintConflicts[m].bench_number
              = assignments[RepeatingSeats[m]].bench_number
    /\ HasReturned => /\ result.assignments = assignments
                      /\ result.diagnostics = diagnostics

\* Three students on a bench of three seats: the third repeats the subject
\* of the first, and the one constraint conflict is for that seat.
C23_Witness ==
  /\ HasReturned /\ PreChecksPassed
  /\ Len(assignments) = 3
  /\ RepeatingSeats = <<3>>
  /\ assignments[3].position = "seat_3"
  /\ Len(ConstraintConflicts) = 1

\* C24: the 'infeasible' conflict of the subject-distribution check names
\* the oversized subject and states the maximum allowed, ceil(n/2).
InfeasibleConflicts ==
  SelectSeq(result.diagnostics.conflicts, LAMBDA c : c.type = "infeasible")

SizeOf(subject) == Cardinality({i \in 1..Len(students) : students[i].subject = subject})

LargestSize == MaxOf({SizeOf(students[i].subject) : i \in 1..Len(students)})

\* The least m with 2 * m >= n.
HalfRoundedUp(n) == CHOOSE m \in 0..n : 2 * m >= n /\ 2 * (m - 1) < n

OversizedSubjects ==
  {students[i].subject : i \in {j \in 1..Len(students) :
                                  SizeOf(students[j].subject) > HalfRoundedUp(Len(students))}}

C24_InfeasibleNamesSubject ==
  HasReturned =>
    \A c \in 1..Len(InfeasibleConflicts) :
       /\ \E subject \in OversizedSubjects : subject \in Range(InfeasibleConflicts[c].message)
       /\ Str(HalfRoundedUp(Len(students))) \in Range(InfeasibleConflicts[c].message)

\* C24 as amended: the conflict states the size of the oversized subject
\* group, not its name, and the maximum allowed, ceil(n/2).
C24_InfeasibleStatesSizeAndMaximum ==
  (HasReturned /\ validationErrors = <<>> /\ ~CapacityCheckFails) =>
    /\ LargestSize > HalfRoundedUp(Len(students)) => Len(InfeasibleConflicts) = 1
    /\ \A c \in 1..Len(InfeasibleConflicts) :
         /\ InfeasibleConflicts[c].message =
              <<"Subject with ", Str(LargestSize),
                " students cannot be seated with bench constraint. Maximum allowed: ",
                Str(HalfRoundedUp(Len(students)))>>
         /\ \A i \in 1..Len(students) :
              students[i].subject \notin Range(InfeasibleConflicts[c].message)

\* Three students of one subject: the conflict states 3 and the maximum 2.
C24_Witness ==
  /\ HasReturned
  /\ Len(students) = 3
  /\ Len(InfeasibleConflicts) = 1
  /\ "3" \in Range(InfeasibleConflicts[1].message)
  /\ "2" \in Range(InfeasibleConflicts[1].message)

\* C25: for rooms of positive num_benches and seats_per_bench, whenever both
\* pre-checks pass: after the room distribution every student is in exactly
\* one room and no room holds more students than its capacity; every student
\* then receives a seat, whatever success is; and no overflow conflict is
\* ever emitted.
AllocatedStudents ==
  LET RECURSIVE Go(_)
      Go(k) == IF k > Len(roomAssignments) THEN <<>>
               ELSE roomAssignments[k].students \o Go(k + 1)
  IN Go(1)

C25_AllSeatedWithinCapacity ==
  (\A k \in 1..Len(rooms) : IsPositiveRoom(rooms[k])) =>
    /\ DistributionDone =>
         /\ IsPermutation(AllocatedStudents, students)
         /\ \A k \in 1..Len(rooms) :
              Len(roomAssignments[k].students) <= capacity(rooms[k])
    /\ (HasReturned /\ PreChecksPassed) =>
         /\ Len(result.assignments) = Len(students)
         /\ IsPermutation([j \in 1..Len(result.assignments) |->
                             result.assignments[j].student], students)
    /\ "overflow" \notin ConflictTypes(diagnostics)
    /\ "overflow" \notin ConflictTypes(result.diagnostics)

\* Two rooms filled to capacity, one student placed by preference, and a
\* bench that repeats a subject: success is false and all three are seated.
C25_Witness ==
  /\ HasReturned /\ PreChecksPassed /\ ~result.success
  /\ Len(students) = 3 /\ Len(rooms) = 2
  /\ \A k \in 1..Len(rooms) : Len(roomAssignments[k].students) = capacity(rooms[k])
  /\ Len(unassignedStudents) = 2
  /\ Len(result.assignments) = 3
  /\ "constraint" \in ConflictTypes(result.diagnostics)

(***************************************************************************)
(* The calls with one room of 2-seat benches and up to MaxSeated students  *)
(* of pairwise distinct rolls without preferences, in every order of       *)
(* their subjects and with every seed of SingleRoomSeeds.                  *)
(***************************************************************************)
SingleRoomRolls == RollNames \o <<"10-10", "A-4">>
SingleRoomBenches == 1..((MaxSeated + 1) \div 2)
SingleRoomSeeds == -6..6

InitSingleRoom ==
  /\ nullArgs = {}
  /\ \E n \in 1..MaxSeated :
       \E s \in FirstOccurrenceForms(n, Len(SubjectNames)) :
          students = [i \in 1..n |->
                        Student(SingleRoomRolls[i], SubjectNames[s[i]], NoPreference)]
  /\ \E b \in SingleRoomBenches : rooms = <<Room(RoomIds[1], RoomNames[1], b, 2)>>
  /\ seed \in {<<>>} \cup {<<s>> : s \in SingleRoomSeeds}
  /\ InitLocals

\* With one room the while loop of line 884 never turns.
NextSingleRoom ==
  \/ Validate
  \/ Shuffle
  \/ CheckCapacity
  \/ CheckSubjects
  \/ PlacePreferred
  \/ PlaceRoundRobin
  \/ EndDistribution
  \/ StartRoom
  \/ AssignSeat
  \/ EndRoom
  \/ Finish

SpecSingleRoom == InitSingleRoom /\ [][NextSingleRoom]_vars

\* C26: for a single room of 2-seat benches with capacity at least n and any
\* student order (any seed), whenever the largest subject group is at most
\* ceil(n/2) the call returns success=true with n assignments and neither a
\* constraint nor an overflow conflict.
SingleRoomCase ==
  /\ nullArgs = {}
  /\ Len(students) > 0
  /\ Len(rooms) = 1
  /\ rooms[1].seats_per_bench = 2
  /\ capacity(rooms[1]) >= Len(students)
  /\ maxSubjectCount(students) <= CeilHalf(Len(students))

C26_SingleRoomSucceeds ==
  (SingleRoomCase /\ pc = "done") =>
    /\ HasReturned
    /\ result.success
    /\ Len(result.assignments) = Len(students)
    /\ ConflictTypes(result.diagnostics) \cap {"constraint", "overflow"} = {}

\* The same for the orders that are permutations of the students: the input
\* order itself, and its shuffle by a seed that loses no student.
SingleRoomSucceedsInEveryPermutation ==
  (pc = "done" /\ ~IsPermutation(processedStudents, students)) \/ C26_SingleRoomSucceeds

\* Five students in groups of 2, 2 and 1, shuffled out of their input order
\* and seated two subjects to a bench.
SingleRoomShuffledSuccess ==
  /\ SingleRoomCase /\ HasReturned /\ result.success
  /\ Len(students) = 5
  /\ seed # <<>> /\ processedStudents # students
  /\ Len(GroupBySubject(students)) = 3
  /\ Len(result.assignments) = 5

\* C27: with rooms made of 2-seat benches, an 'infeasible' conflict is
\* returned only if no placement of all students on the rooms' seats exists
\* in which no bench holds two students of the same subject.
TwoSeatBenches == \A k \in 1..Len(rooms) : rooms[k].seats_per_bench = 2

\* The seats of the rooms: room, bench and seat on the bench.
SeatsOfRooms ==
  UNION {{<<k, b, s>> : b \in 1..rooms[k].num_benches,
                       s \in 1..rooms[k].seats_per_bench} : k \in 1..Len(rooms)}

\* Some placement seats every student on a seat of his own with no two
\* students of one subject on a bench.
ConflictFreePlacementExists ==
  \E place \in [1..Len(students) -> SeatsOfRooms] :
     \A i, j \in 1..Len(students) :
        i # j =>
          /\ place[i] # place[j]
          /\ (place[i][1] = place[j][1] /\ place[i][2] = place[j][2])
               => students[i].subject # students[j].subject

C27_InfeasibleOnlyIfImpossible ==
  (HasReturned /\ TwoSeatBenches /\ "infeasible" \in ConflictTypes(result.diagnostics))
    => ~ConflictFreePlacementExists

\* The bound of the comment of line 842, half of the total seats rounded up,
\* is exceeded exactly when no such placement exists.
NoPlacementIffOverHalfOfSeats ==
  (HasReturned /\ TwoSeatBenches /\ validationErrors = <<>>
     /\ Len(students) <= totalCapacity(rooms))
    => (ConflictFreePlacementExists
          <=> maxSubjectCount(students) <= CeilHalf(totalCapacity(rooms)))

(***************************************************************************)
(* POST /api/override of the server (src/unnamed/part_000, lines           *)
(* 514-547).  The variable assignments holds the rows of the table         *)
(* assignments in the order of their ids.  db.serialize queues the two     *)
(* UPDATE statements and the COMMIT in one turn, so they run one after     *)
(* the other with no statement of another request in between.              *)
(***************************************************************************)
OverrideSessions == {"S1", "S2"}

OverrideSeats ==
  {[room_id |-> r, bench_number |-> 1, position |-> p] :
     r \in {RoomIds[1], RoomIds[2]}, p \in {"left", "right"}}

\* The rows POST /api/schedule saves for a session (lines 281-287): one row
\* for each assignment of a successful result, on pairwise distinct seats.
SavedRows(session_id, seats) ==
  [i \in 1..Len(seats) |->
     [session_id |-> session_id, room_id |-> seats[i].room_id,
      bench_number |-> seats[i].bench_number, position |-> seats[i].position,
      student_roll |-> RollNames[i]]]

InitOverride ==
  /\ nullArgs = {}
  /\ students = <<>>
  /\ rooms = <<>>
  /\ seed = <<>>
  /\ pc = "override"
  /\ validationErrors = <<>>
  /\ processedStudents = <<>>
  /\ diagnostics = [feasible |-> TRUE, conflicts |-> <<>>, suggestions |-> <<>>]
  /\ roomAssignments = <<>>
  /\ unassignedStudents = <<>>
  /\ cursor = [i |-> 0, roomIdx |-> 0, k |-> 0, benchIdx |-> 0, seatIdx |-> 0]
  /\ roomSubjectGroups = <<>>
  /\ benchSubjects = {}
  /\ remainingStudents = 0
  /\ \E n \in 1..MaxRows :
        \E seats \in [1..n -> OverrideSeats], other \in OverrideSeats :
           /\ \A i, j \in 1..n : i # j => seats[i] # seats[j]
           /\ assignments = SavedRows("S1", seats) \o SavedRows("S2", <<other>>)
  /\ outcome = "pending"
  /\ result = NoResult

\* WHERE session_id = ? AND room_id = ? AND bench_number = ? AND position = ?
RowIsAt(row, session_id, seat) ==
  /\ row.session_id = session_id
  /\ row.room_id = seat.room_id
  /\ row.bench_number = seat.bench_number
  /\ row.position = seat.position

\* UPDATE assignments SET room_id = ?, bench_number = ?, position = ? WHERE ...
updateSeat(rows, session_id, whereSeat, setSeat) ==
  [i \in 1..Len(rows) |->
     IF RowIsAt(rows[i], session_id, whereSeat)
     THEN [rows[i] EXCEPT !.room_id = setSeat.room_id,
                          !.bench_number = setSeat.bench_number,
                          !.position = setSeat.position]
     ELSE rows[i]]

\* One request: the first UPDATE on the table, the second on its outcome,
\* the COMMIT and the response { success: true }.
OverrideRequest(session_id, from_seat, to_seat) ==
  /\ pc = "override"
  /\ assignments' = updateSeat(updateSeat(assignments, session_id, from_seat, to_seat),
                               session_id, to_seat, from_seat)
  /\ outcome' = "returned"
  /\ UNCHANGED <<students, rooms, nullArgs, seed, pc, validationErrors,
                 processedStudents, diagnostics, roomAssignments, unassignedStudents,
                 cursor, roomSubjectGroups, benchSubjects, remainingStudents, result>>

Override ==
  \E session_id \in OverrideSessions, from_seat, to_seat \in OverrideSeats :
     OverrideRequest(session_id, from_seat, to_seat)

SpecOverride == InitOverride /\ [][Override]_vars

\* C28: when from_seat and to_seat are distinct and both occupied in the
\* session, after POST /api/override the student formerly at from_seat is at
\* to_seat, the student formerly at to_seat is at from_seat, and no two rows
\* of the session share a (room_id, bench_number, position).
SeatOccupied(rows, session_id, seat) ==
  \E i \in 1..Len(rows) : RowIsAt(rows[i], session_id, seat)

SessionSeatsDistinct(rows, session_id) ==
  \A i, j \in 1..Len(rows) :
     (i # j /\ rows[i].session_id = session_id /\ rows[j].session_id = session_id)
       => SeatOf(rows[i]) # SeatOf(rows[j])

Swapped(session_id, from_seat, to_seat) ==
  /\ \A i \in 1..Len(assignments) :
        /\ RowIsAt(assignments[i], session_id, from_seat)
             => RowIsAt(assignments'[i], session_id, to_seat)
        /\ RowIsAt(assignments[i], session_id, to_seat)
             => RowIsAt(assignments'[i], session_id, from_seat)
  /\ SessionSeatsDistinct(assignments', session_id)

C28_OverrideSwaps ==
  [][\A session_id \in OverrideSessions, from_seat, to_seat \in OverrideSeats :
        ( /\ OverrideRequest(session_id, from_seat, to_seat)
          /\ from_seat # to_seat
          /\ SessionSeatsDistinct(assignments, session_id)
          /\ SeatOccupied(assignments, session_id, from_seat)
          /\ SeatOccupied(assignments, session_id, to_seat) )
          => Swapped(session_id, from_seat, to_seat)]_vars

\* What the two statements do in that case: both students end at from_seat
\* and to_seat is left empty.
OverrideGathersAtFromSeat ==
  [][\A session_id \in OverrideSessions, from_seat, to_seat \in OverrideSeats :
        ( /\ OverrideRequest(session_id, from_seat, to_seat)
          /\ from_seat # to_seat
          /\ SeatOccupied(assignments, session_id, from_seat)
          /\ SeatOccupied(assignments, session_id, to_seat) )
          => /\ \A i \in 1..Len(assignments) :
                  (RowIsAt(assignments[i], session_id, from_seat)
                     \/ RowIsAt(assignments[i], session_id, to_seat))
                    => RowIsAt(assignments'[i], session_id, from_seat)
             /\ ~SeatOccupied(assignments', session_id, to_seat)]_vars

\* The rows of other sessions and the rolls of all rows are left alone.
OverrideKeepsOtherRows ==
  [][\A session_id \in OverrideSessions, from_seat, to_seat \in OverrideSeats :
        OverrideRequest(session_id, from_seat, to_seat)
          => /\ Len(assignments') = Len(assignments)
             /\ \A i \in 1..Len(assignments) :
                  /\ assignments'[i].student_roll = assignments[i].student_roll
                  /\ assignments'[i].session_id = assignments[i].session_id
                  /\ assignments[i].session_id # session_id
                       => assignments'[i] = assignments[i]]_vars

(***************************************************************************)
(* The room list of the React client (src/unnamed/part_001).  The variable *)
(* rooms holds the state `rooms` of the component, [] at first (line 9);   *)
(* room_id and room_name are kept as the parts of their template strings.  *)
(***************************************************************************)
InitClient ==
  /\ nullArgs = {}
  /\ students = <<>>
  /\ rooms = <<>>
  /\ seed = <<>>
  /\ pc = "configure"
  /\ validationErrors = <<>>
  /\ processedStudents = <<>>
  /\ diagnostics = [feasible |-> TRUE, conflicts |-> <<>>, suggestions |-> <<>>]
  /\ roomAssignments = <<>>
  /\ unassignedStudents = <<>>
  /\ cursor = [i |-> 0, roomIdx |-> 0, k |-> 0, benchIdx |-> 0, seatIdx |-> 0]
  /\ roomSubjectGroups = <<>>
  /\ benchSubjects = {}
  /\ remainingStudents = 0
  /\ assignments = <<>>
  /\ outcome = "pending"
  /\ result = NoResult

ClientFrame ==
  UNCHANGED <<students, nullArgs, seed, validationErrors, processedStudents,
              diagnostics, roomAssignments, unassignedStudents, cursor,
              roomSubjectGroups, benchSubjects, remainingStudents, assignments,
              outcome, result>>

\* { room_id: `R${rooms.length + 1}`, room_name: `Room ${rooms.length + 1}`,
\*   num_benches: 11, seats_per_bench: 2 }
newRoom(list) ==
  Room(<<"R", Str(Len(list) + 1)>>, <<"Room ", Str(Len(list) + 1)>>, 11, 2)

\* Lines 45-47.
handleAddRoom ==
  /\ Len(rooms) < MaxClientRooms
  /\ rooms' = Append(rooms, newRoom(rooms))
  /\ pc' = "configure"
  /\ ClientFrame

\* Lines 55-57: rooms.filter((_, i) => i !== index), index counted from 0.
handleRemoveRoom ==
  \E index \in 0..(Len(rooms) - 1) :
     /\ rooms' = [k \in 1..(Len(rooms) - 1) |->
                    IF k <= index THEN rooms[k] ELSE rooms[k + 1]]
     /\ pc' = "configure"
     /\ ClientFrame

\* Lines 59-87: with no room an error is shown; else the list is posted to
\* /rooms and, with seed 42, to /schedule.
handleSchedule ==
  /\ pc = "configure"
  /\ pc' = IF Len(rooms) = 0 THEN "error" ELSE "scheduling"
  /\ seed' = IF Len(rooms) = 0 THEN seed ELSE <<42>>
  /\ UNCHANGED <<students, rooms, nullArgs, validationErrors, processedStudents,
                 diagnostics, roomAssignments, unassignedStudents, cursor,
                 roomSubjectGroups, benchSubjects, remainingStudents, assignments,
                 outcome, result>>

NextClient == handleAddRoom \/ handleRemoveRoom \/ handleSchedule

SpecClient == InitClient /\ [][NextClient]_vars

\* C29: after any sequence of Add Room and Remove Room from the empty list,
\* the rooms of the list sent to the scheduler have pairwise distinct
\* room_id values.
C29_ClientRoomIdsDistinct == pc = "scheduling" => RoomIdsDistinct

\* C30: schedule leaves the caller's students and rooms sequences unchanged
\* (same elements, same order, same field values) in every step of every
\* call, whatever the input and the seed and whether the call succeeds,
\* fails or throws; what changes are the copies and groupings made inside.
C30_CallerSequencesUnchanged ==
  [][students' = students /\ rooms' = rooms]_vars

\* A call that shuffled its copy into another order, emptied the subject
\* groups of two rooms seat by seat, and returned.
C30_Witness ==
  /\ HasReturned
  /\ seed # <<>>
  /\ Len(students) = 3 /\ Len(rooms) = 2
  /\ IsPermutation(processedStudents, students)
  /\ processedStudents # students
  /\ Len(result.assignments) = 3
  /\ roomSubjectGroups = <<>>
  /\ \A k \in 1..Len(roomAssignments) : roomAssignments[k].students # <<>>

====
